---- MODULE Spec2Model ----
(***************************************************************************)
(* Model of src/main.c: the coordinator (main), the capture worker         *)
(* (proc_video), the audio worker (proc_audio), the signal handler and the *)
(* window event source.  Every thread is a position (mpc, vpc, apc) plus   *)
(* the objects it creates and releases.  Results of system and library     *)
(* calls (ioctl, mmap, select, SDL) are chosen nondeterministically.       *)
(*                                                                         *)
(* The flag `running` is a plain int shared by the three threads; every    *)
(* loop that reads it also calls external functions, so each evaluation of *)
(* a loop condition loads the current value of the one location.           *)
(***************************************************************************)
EXTENDS Integers, Sequences, FiniteSets

\* ---- bounds of the model ------------------------------------------------
\* largest buffer count the driver grants for VIDIOC_REQBUFS
MaxGrant == 2
\* window events that may be pending at once
MaxEvents == 1
\* cap of the history counters below
CountCap == 2

\* ---- program constants --------------------------------------------------
\* the least buffer count proc_video accepts
MinBuffers == 2

Slots == 0 .. (MaxGrant - 1)
EventKinds == {"QUIT", "ESCAPE", "OTHER"}

VARIABLES
  mpc,          \* position of main
  exitCode,     \* value returned by main, -1 while it runs
  fdv,          \* device handle: "none", "open", "closed"
  sdl,          \* SDL library: "none", "init", "quit"
  running,      \* int running (main), shared through args->running
  g_stop,       \* volatile sig_atomic_t g_stop
  vpc,          \* position of proc_video
  vrc,          \* return value of proc_video, -1 while not returned
  i,            \* uint32_t i of proc_video
  reqCount,     \* req.count after VIDIOC_REQBUFS
  buffers,      \* slot table: "null", "alloc", "freed"
  slotMap,      \* per slot: "unset", "mapped", "failed", "unmapped"
  slotOwner,    \* per slot: "app" (not queued, the driver does not touch it),
                \*           "kernel" (queued, the driver may fill it)
  streaming,    \* device streaming state
  bufIndex,     \* buf.index of the last dequeue, -1 before any
  win, ren, tex,\* SDL objects: "null", "live", "destroyed"
  rgb,          \* FrameBuffer: "null", "alloc", "freed"
  events,       \* pending window events
  xretry,       \* xioctl: the current call has been reissued after EINTR
  apc,          \* position of proc_audio
  arc,          \* return value of proc_audio, -1 while not returned
  rc,           \* int rc of proc_audio
  aud,          \* audio objects: name -> "null", "open", "closed"
  hist,         \* history record, written but never read by the program
  calc          \* the function call in progress when one function is run alone

vars == << mpc, exitCode, fdv, sdl, running, g_stop, vpc, vrc, i, reqCount,
           buffers, slotMap, slotOwner, streaming, bufIndex, win, ren, tex,
           rgb, events, xretry, apc, arc, rc, aud, hist, calc >>

mainVars == << mpc, exitCode, fdv, sdl >>
videoVars == << vpc, vrc, i, reqCount, buffers, slotMap, slotOwner, streaming,
                bufIndex, win, ren, tex, rgb >>
audioVars == << apc, arc, rc, aud >>
flagVars == << running, g_stop >>
envVars == << events, xretry >>

AudioObjects == {"rec_dev", "out_dev", "rec_stream", "out_stream"}

Bump(n) == IF n < CountCap THEN n + 1 ELSE CountCap

\* history: what happened, for stating properties
\*   misapplied : release steps applied to a resource not live at that time
\*   cleanupLog : release steps main has executed, in order
\*   renderBy   : threads that created, used or destroyed window/renderer/texture
\*   ioOps      : <<operation, device streaming at the call>> of buffer queue calls
\*   lateWaits, lateCycles, lateAudio : readiness waits, dequeue cycles and audio
\*                iterations completed after the loop condition became false
\*   audioCause : why proc_audio left ("none", "startup", "io", "stop")
\*   videoCause : why proc_video left ("none", "startup", "io", "stop")
\*   failed     : startup steps that failed
\*   frame      : how far the dequeued frame has been consumed
\*                ("none", "dequeued", "converted", "presented")
HistInit ==
  [ misapplied |-> {}, cleanupLog |-> << >>, renderBy |-> {}, ioOps |-> {},
    lateWaits |-> 0, lateCycles |-> 0, lateAudio |-> 0,
    audioCause |-> "none", videoCause |-> "none", failed |-> {},
    frame |-> "none" ]

\* no single function is being run alone
NoCalc == [fn |-> "none"]

\* the program's own state before main has done anything
Idle ==
  /\ mpc = "open"
  /\ exitCode = -1
  /\ fdv = "none"
  /\ sdl = "none"
  /\ running = TRUE
  /\ g_stop = FALSE
  /\ vpc = "notstarted"
  /\ vrc = -1
  /\ i = 0
  /\ reqCount = 0
  /\ buffers = "null"
  /\ slotMap = [s \in Slots |-> "unset"]
  /\ slotOwner = [s \in Slots |-> "app"]
  /\ streaming = FALSE
  /\ bufIndex = -1
  /\ win = "null"
  /\ ren = "null"
  /\ tex = "null"
  /\ rgb = "null"
  /\ events = << >>
  /\ xretry = FALSE
  /\ apc = "notstarted"
  /\ arc = -1
  /\ rc = 1
  /\ aud = [o \in AudioObjects |-> "null"]
  /\ hist = HistInit

Init == Idle /\ calc = NoCalc

\* ---- environment --------------------------------------------------------

\* changed: the handler flips the flag and clears the run state as well
SignalHandlerToggle ==
  /\ mpc # "exited"
  /\ g_stop' = ~g_stop
  /\ running' = FALSE
  /\ UNCHANGED << mainVars, videoVars, audioVars, envVars, hist, calc >>

\* signalHandler: one store to g_stop
SignalHandler ==
  /\ mpc # "exited"
  /\ g_stop' = TRUE
  /\ UNCHANGED << mainVars, running, videoVars, audioVars, envVars, hist >>
  /\ UNCHANGED calc

\* a window event arrives in the SDL event queue
UiEvent ==
  /\ win = "live"
  /\ Len(events) < MaxEvents
  /\ \E k \in EventKinds : events' = Append(events, k)
  /\ UNCHANGED << mainVars, flagVars, videoVars, audioVars, xretry, hist >>
  /\ UNCHANGED calc

\* positions at which a thread is inside xioctl
VideoIoctlPcs == {"s_fmt", "reqbufs", "querybuf", "qbuf", "streamon", "dqbuf", "requeue"}

\* xioctl: ioctl returned -1 with errno EINTR, the call is issued again
XioctlEintr ==
  /\ vpc \in VideoIoctlPcs \/ mpc = "streamoff"
  /\ ~xretry
  /\ xretry' = TRUE
  /\ UNCHANGED << mainVars, flagVars, videoVars, audioVars, events, hist >>
  /\ UNCHANGED calc

\* ---- main ---------------------------------------------------------------

Log(op) == Append(hist.cleanupLog, op)

\* changed: main does not wait for the capture worker
VideoNotAwaited == TRUE

\* pthread_join(video_thread) returns
VideoJoined == vpc = "returned"

\* pthread_join(audio_thread) returns
AudioJoined == apc = "returned"

MainOpen ==
  /\ mpc = "open"
  /\ \/ /\ fdv' = "open"
        /\ mpc' = "sdl_init"
        /\ UNCHANGED << exitCode, hist >>
     \/ /\ mpc' = "exited"
        /\ exitCode' = 1
        /\ hist' = [hist EXCEPT !.failed = @ \cup {"open"}]
        /\ UNCHANGED fdv
  /\ UNCHANGED << sdl, flagVars, videoVars, audioVars, envVars >>
  /\ UNCHANGED calc

MainSdlInit ==
  /\ mpc = "sdl_init"
  /\ \/ /\ sdl' = "init"
        /\ mpc' = "create_video"
        /\ UNCHANGED << exitCode, fdv, hist >>
     \/ /\ fdv' = "closed"
        /\ mpc' = "exited"
        /\ exitCode' = 1
        /\ hist' = [hist EXCEPT !.failed = @ \cup {"sdl_init"},
                                !.cleanupLog = Log("close")]
        /\ UNCHANGED sdl
  /\ UNCHANGED << flagVars, videoVars, audioVars, envVars >>
  /\ UNCHANGED calc

MainCreateVideo ==
  /\ mpc = "create_video"
  /\ \/ /\ vpc' = "s_fmt"
        /\ mpc' = "create_audio"
        /\ UNCHANGED << exitCode, fdv, sdl, running, hist >>
     \/ /\ running' = FALSE
        /\ sdl' = "quit"
        /\ fdv' = "closed"
        /\ mpc' = "exited"
        /\ exitCode' = 1
        /\ hist' = [hist EXCEPT !.cleanupLog = Log("close")]
        /\ UNCHANGED vpc
  /\ UNCHANGED << g_stop, vrc, i, reqCount, buffers, slotMap, slotOwner,
                  streaming, bufIndex, win, ren, tex, rgb, audioVars, envVars >>
  /\ UNCHANGED calc

MainCreateAudio ==
  /\ mpc = "create_audio"
  /\ \/ /\ apc' = "open_rec"
        /\ mpc' = "join_video"
        /\ UNCHANGED running
     \/ /\ running' = FALSE
        /\ mpc' = "join_video_f"
        /\ UNCHANGED apc
  /\ UNCHANGED << exitCode, fdv, sdl, g_stop, videoVars, arc, rc, aud, envVars, hist >>
  /\ UNCHANGED calc

\* failure path of pthread_create(audio): join video, SDL_Quit, close, return 1
MainAudioCreateFailed ==
  /\ mpc = "join_video_f"
  /\ VideoJoined
  /\ sdl' = "quit"
  /\ fdv' = "closed"
  /\ mpc' = "exited"
  /\ exitCode' = 1
  /\ hist' = [hist EXCEPT !.cleanupLog = Log("close")]
  /\ UNCHANGED << flagVars, videoVars, audioVars, envVars >>
  /\ UNCHANGED calc

MainJoinVideo ==
  /\ mpc = "join_video"
  /\ VideoJoined
  /\ running' = FALSE
  /\ mpc' = "join_audio"
  /\ UNCHANGED << exitCode, fdv, sdl, g_stop, videoVars, audioVars, envVars, hist >>
  /\ UNCHANGED calc

MainJoinAudio ==
  /\ mpc = "join_audio"
  /\ AudioJoined
  /\ mpc' = "streamoff"
  /\ UNCHANGED << exitCode, fdv, sdl, flagVars, videoVars, audioVars, envVars, hist >>
  /\ UNCHANGED calc

\* xioctl(fdv, VIDIOC_STREAMOFF, &type), result not examined
MainStreamOff ==
  /\ xretry' = FALSE
  /\ mpc = "streamoff"
  /\ streaming' = FALSE
  /\ slotOwner' = [s \in Slots |-> "app"]
  /\ hist' = [hist EXCEPT
        !.cleanupLog = Log("streamoff"),
        !.misapplied = IF streaming THEN @ ELSE @ \cup {"streamoff"}]
  /\ mpc' = "munmap"
  /\ UNCHANGED << exitCode, fdv, sdl, flagVars, vpc, vrc, i, reqCount, buffers,
                  slotMap, bufIndex, win, ren, tex, rgb, audioVars, events >>
  /\ UNCHANGED calc

\* munmap of every slot below req.count
UnmapAll(m) ==
  [s \in Slots |-> IF s < reqCount /\ m[s] = "mapped" THEN "unmapped" ELSE m[s]]

\* if (buffers) { munmap each slot; free(buffers); }
MainUnmap ==
  /\ mpc = "munmap"
  /\ IF buffers # "null"
       THEN /\ slotMap' = UnmapAll(slotMap)
            /\ buffers' = "freed"
            /\ hist' = [hist EXCEPT
                  !.cleanupLog = Log("munmap"),
                  !.misapplied =
                     @ \cup (IF \E s \in Slots : s < reqCount /\ slotMap[s] # "mapped"
                               THEN {"munmap"} ELSE {})
                       \cup (IF buffers = "freed" THEN {"free_buffers"} ELSE {})]
       ELSE UNCHANGED << slotMap, buffers, hist >>
  /\ mpc' = "free_rgb"
  /\ UNCHANGED << exitCode, fdv, sdl, flagVars, vpc, vrc, i, reqCount, slotOwner,
                  streaming, bufIndex, win, ren, tex, rgb, audioVars, envVars >>
  /\ UNCHANGED calc

\* free(rgb); free(NULL) does nothing
MainFreeRgb ==
  /\ mpc = "free_rgb"
  /\ IF rgb # "null"
       THEN /\ rgb' = "freed"
            /\ hist' = [hist EXCEPT
                  !.cleanupLog = Log("free_rgb"),
                  !.misapplied = IF rgb = "freed" THEN @ \cup {"free_rgb"} ELSE @]
       ELSE UNCHANGED << rgb, hist >>
  /\ mpc' = "destroy_tex"
  /\ UNCHANGED << exitCode, fdv, sdl, flagVars, vpc, vrc, i, reqCount, buffers,
                  slotMap, slotOwner, streaming, bufIndex, win, ren, tex,
                  audioVars, envVars >>
  /\ UNCHANGED calc

\* if (obj) SDL_Destroy...(obj), executed by main
Destroy(obj, name) ==
  IF obj # "null"
    THEN [hist EXCEPT !.cleanupLog = Log(name),
                      !.renderBy = @ \cup {"main"},
                      !.misapplied = IF obj = "destroyed" THEN @ \cup {name} ELSE @]
    ELSE hist

MainDestroyTex ==
  /\ mpc = "destroy_tex"
  /\ tex' = IF tex # "null" THEN "destroyed" ELSE tex
  /\ hist' = Destroy(tex, "tex")
  /\ mpc' = "destroy_ren"
  /\ UNCHANGED << exitCode, fdv, sdl, flagVars, vpc, vrc, i, reqCount, buffers,
                  slotMap, slotOwner, streaming, bufIndex, win, ren, rgb,
                  audioVars, envVars >>
  /\ UNCHANGED calc

MainDestroyRen ==
  /\ mpc = "destroy_ren"
  /\ ren' = IF ren # "null" THEN "destroyed" ELSE ren
  /\ hist' = Destroy(ren, "ren")
  /\ mpc' = "destroy_win"
  /\ UNCHANGED << exitCode, fdv, sdl, flagVars, vpc, vrc, i, reqCount, buffers,
                  slotMap, slotOwner, streaming, bufIndex, win, tex, rgb,
                  audioVars, envVars >>
  /\ UNCHANGED calc

MainDestroyWin ==
  /\ mpc = "destroy_win"
  /\ win' = IF win # "null" THEN "destroyed" ELSE win
  /\ hist' = Destroy(win, "win")
  /\ mpc' = "quit"
  /\ UNCHANGED << exitCode, fdv, sdl, flagVars, vpc, vrc, i, reqCount, buffers,
                  slotMap, slotOwner, streaming, bufIndex, ren, tex, rgb,
                  audioVars, envVars >>
  /\ UNCHANGED calc

\* SDL_Quit(); close(fdv); return 0;
MainQuit ==
  /\ mpc = "quit"
  /\ sdl' = "quit"
  /\ fdv' = "closed"
  /\ hist' = [hist EXCEPT !.cleanupLog = Log("close")]
  /\ exitCode' = 0
  /\ mpc' = "exited"
  /\ UNCHANGED << flagVars, videoVars, audioVars, envVars >>
  /\ UNCHANGED calc

Main ==
  \/ MainOpen \/ MainSdlInit \/ MainCreateVideo \/ MainCreateAudio
  \/ MainAudioCreateFailed \/ MainJoinVideo \/ MainJoinAudio \/ MainStreamOff
  \/ MainUnmap \/ MainFreeRgb \/ MainDestroyTex \/ MainDestroyRen
  \/ MainDestroyWin \/ MainQuit

\* ---- proc_video ---------------------------------------------------------

\* changed: the loops test only *args->running
LoopCondNoStop == running

\* the condition both loops test: *args->running && !g_stop
LoopCond == running /\ ~g_stop

\* changed: the failure is reported but proc_video goes on to its loop
VideoFailToLoop(step) ==
  /\ vpc' = "loop"
  /\ vrc' = 1
  /\ hist' = [hist EXCEPT !.failed = @ \cup {step}, !.videoCause = "startup"]

\* return 1 out of the startup phase of proc_video
VideoFail(step) ==
  /\ vpc' = "returned"
  /\ vrc' = 1
  /\ hist' = [hist EXCEPT !.failed = @ \cup {step}, !.videoCause = "startup"]

\* xioctl(VIDIOC_S_FMT)
VideoSetFormat ==
  /\ xretry' = FALSE
  /\ vpc = "s_fmt"
  /\ \/ /\ vpc' = "reqbufs"
        /\ UNCHANGED << vrc, hist >>
     \/ VideoFail("s_fmt")
  /\ UNCHANGED << mainVars, flagVars, i, reqCount, buffers, slotMap, slotOwner,
                  streaming, bufIndex, win, ren, tex, rgb, audioVars, events >>
  /\ UNCHANGED calc

\* the test on the granted buffer count: req->count < 2 fails
GrantAccepted(n) == n >= MinBuffers

\* xioctl(VIDIOC_REQBUFS) and the test of req->count
VideoReqbufs ==
  /\ xretry' = FALSE
  /\ vpc = "reqbufs"
  /\ \/ \E n \in 0 .. MaxGrant :
          /\ reqCount' = n
          /\ IF GrantAccepted(n)
               THEN /\ vpc' = "calloc"
                    /\ UNCHANGED << vrc, hist >>
               ELSE VideoFail("reqbufs")
     \/ /\ VideoFail("reqbufs")
        /\ UNCHANGED reqCount
  /\ UNCHANGED << mainVars, flagVars, i, buffers, slotMap, slotOwner,
                  streaming, bufIndex, win, ren, tex, rgb, audioVars, events >>
  /\ UNCHANGED calc

\* *args->buffers = calloc(req->count, sizeof(buffer_t))
VideoCalloc ==
  /\ vpc = "calloc"
  /\ \/ /\ buffers' = "alloc"
        /\ slotMap' = [s \in Slots |-> "unset"]
        /\ i' = 0
        /\ vpc' = "querybuf"
        /\ UNCHANGED << vrc, hist >>
     \/ /\ VideoFail("calloc")
        /\ UNCHANGED << buffers, slotMap, i >>
  /\ UNCHANGED << mainVars, flagVars, reqCount, slotOwner, streaming, bufIndex,
                  win, ren, tex, rgb, audioVars, envVars >>
  /\ UNCHANGED calc

\* one pass of the first for loop: VIDIOC_QUERYBUF, then mmap of slot i
VideoQueryMap ==
  /\ xretry' = FALSE
  /\ vpc = "querybuf"
  /\ \/ /\ slotMap' = [slotMap EXCEPT ![i] = "mapped"]
        /\ IF i + 1 < reqCount
             THEN /\ i' = i + 1
                  /\ vpc' = "querybuf"
             ELSE /\ i' = 0
                  /\ vpc' = "qbuf"
        /\ UNCHANGED << vrc, hist >>
     \/ /\ VideoFail("querybuf")
        /\ UNCHANGED << slotMap, i >>
     \/ /\ slotMap' = [slotMap EXCEPT ![i] = "failed"]
        /\ VideoFail("mmap")
        /\ UNCHANGED i
  /\ UNCHANGED << mainVars, flagVars, reqCount, buffers, slotOwner, streaming,
                  bufIndex, win, ren, tex, rgb, audioVars, events >>
  /\ UNCHANGED calc

\* a buffer queue call was issued: remember whether the device was streaming
Io(op) == hist.ioOps \cup { << op, streaming >> }

\* one pass of the second for loop: VIDIOC_QBUF of slot i
VideoQbufInit ==
  /\ xretry' = FALSE
  /\ vpc = "qbuf"
  /\ \/ /\ slotOwner' = [slotOwner EXCEPT ![i] = "kernel"]
        /\ IF i + 1 < reqCount
             THEN /\ i' = i + 1
                  /\ vpc' = "qbuf"
             ELSE /\ i' = i + 1
                  /\ vpc' = "streamon"
        /\ hist' = [hist EXCEPT !.ioOps = Io("enqueue")]
        /\ UNCHANGED vrc
     \/ /\ vpc' = "returned"
        /\ vrc' = 1
        /\ hist' = [hist EXCEPT !.failed = @ \cup {"qbuf"}, !.videoCause = "startup",
                                !.ioOps = Io("enqueue")]
        /\ UNCHANGED << slotOwner, i >>
  /\ UNCHANGED << mainVars, flagVars, reqCount, buffers, slotMap, streaming,
                  bufIndex, win, ren, tex, rgb, audioVars, events >>
  /\ UNCHANGED calc

\* changed: a failed VIDIOC_STREAMON is ignored
AfterStreamOnIgnored(ok) == "create_win"

\* where proc_video goes after VIDIOC_STREAMON
AfterStreamOn(ok) == IF ok THEN "create_win" ELSE "returned"

\* xioctl(VIDIOC_STREAMON)
VideoStreamOn ==
  /\ xretry' = FALSE
  /\ vpc = "streamon"
  /\ \E ok \in BOOLEAN :
       /\ streaming' = ok
       /\ vpc' = AfterStreamOn(ok)
       /\ IF vpc' = "returned"
            THEN /\ vrc' = 1
                 /\ hist' = [hist EXCEPT !.failed = @ \cup {"streamon"},
                                         !.videoCause = "startup"]
            ELSE UNCHANGED << vrc, hist >>
  /\ UNCHANGED << mainVars, flagVars, i, reqCount, buffers, slotMap, slotOwner,
                  bufIndex, win, ren, tex, rgb, audioVars, events >>
  /\ UNCHANGED calc

\* a rendering object was created or used by proc_video
Rendered == [hist EXCEPT !.renderBy = @ \cup {"video"}]

VideoCreateWindow ==
  /\ vpc = "create_win"
  /\ \/ /\ win' = "live"
        /\ vpc' = "create_ren"
        /\ hist' = Rendered
        /\ UNCHANGED vrc
     \/ /\ VideoFail("window")
        /\ UNCHANGED win
  /\ UNCHANGED << mainVars, flagVars, i, reqCount, buffers, slotMap, slotOwner,
                  streaming, bufIndex, ren, tex, rgb, audioVars, envVars >>
  /\ UNCHANGED calc

VideoCreateRenderer ==
  /\ vpc = "create_ren"
  /\ \/ /\ ren' = "live"
        /\ vpc' = "create_tex"
        /\ hist' = Rendered
        /\ UNCHANGED vrc
     \/ /\ VideoFail("renderer")
        /\ UNCHANGED ren
  /\ UNCHANGED << mainVars, flagVars, i, reqCount, buffers, slotMap, slotOwner,
                  streaming, bufIndex, win, tex, rgb, audioVars, envVars >>
  /\ UNCHANGED calc

VideoCreateTexture ==
  /\ vpc = "create_tex"
  /\ \/ /\ tex' = "live"
        /\ vpc' = "malloc_rgb"
        /\ hist' = Rendered
        /\ UNCHANGED vrc
     \/ /\ VideoFail("texture")
        /\ UNCHANGED tex
  /\ UNCHANGED << mainVars, flagVars, i, reqCount, buffers, slotMap, slotOwner,
                  streaming, bufIndex, win, ren, rgb, audioVars, envVars >>
  /\ UNCHANGED calc

\* *args->rgb = malloc(*args->rgb_size)
VideoMallocRgb ==
  /\ vpc = "malloc_rgb"
  /\ \/ /\ rgb' = "alloc"
        /\ vpc' = "loop"
        /\ UNCHANGED << vrc, hist >>
     \/ /\ VideoFail("rgb")
        /\ UNCHANGED rgb
  /\ UNCHANGED << mainVars, flagVars, i, reqCount, buffers, slotMap, slotOwner,
                  streaming, bufIndex, win, ren, tex, audioVars, envVars >>
  /\ UNCHANGED calc

\* while (*args->running && !g_stop)
VideoLoopCheck ==
  /\ vpc = "loop"
  /\ vpc' = IF LoopCond THEN "poll" ELSE "drain"
  /\ hist' = IF LoopCond \/ hist.videoCause # "none" THEN hist
             ELSE [hist EXCEPT !.videoCause = "stop"]
  /\ UNCHANGED << mainVars, flagVars, vrc, i, reqCount, buffers, slotMap,
                  slotOwner, streaming, bufIndex, win, ren, tex, rgb,
                  audioVars, envVars >>
  /\ UNCHANGED calc

\* an event that makes the poll loop store 0 to *args->running
QuitEvent(e) == e = "QUIT" \/ e = "ESCAPE"

\* while (SDL_PollEvent(args->e)) ... : drains the event queue
VideoPollEvents ==
  /\ vpc = "poll"
  /\ running' = IF \E k \in 1 .. Len(events) : QuitEvent(events[k])
                  THEN FALSE ELSE running
  /\ events' = << >>
  /\ vpc' = "select"
  /\ UNCHANGED << mainVars, g_stop, vrc, i, reqCount, buffers, slotMap,
                  slotOwner, streaming, bufIndex, win, ren, tex, rgb,
                  audioVars, xretry, hist >>
  /\ UNCHANGED calc

\* shutdown has been requested: RunState is false or the stop flag is set
StopRequested == ~running \/ g_stop

\* a wait, dequeue cycle or audio pass that completes after shutdown was requested
Late(n) == IF StopRequested THEN Bump(n) ELSE n

\* changed: a timeout of select ends the loop
AfterSelectTimeoutFatal(r) ==
  CASE r = "eintr" -> "loop"
    [] r = "error" -> "drain"
    [] r = "timeout" -> "drain"
    [] OTHER -> "dqbuf"

\* where the streaming loop goes after select: "eintr", "error", "timeout", "ready"
AfterSelect(r) ==
  CASE r = "eintr" -> "loop"
    [] r = "error" -> "drain"
    [] r = "timeout" -> "loop"
    [] OTHER -> "dqbuf"

\* what proc_video does with the result r of select
SelectOutcome(r) ==
  /\ vpc' = AfterSelect(r)
  /\ hist' = [hist EXCEPT
        !.lateWaits = Late(@),
        !.videoCause = IF r = "error" /\ @ = "none" THEN "io" ELSE @]

\* *args->r = select(..., args->tv) with a 2 second timeout
VideoSelect ==
  /\ vpc = "select"
  /\ \E r \in {"eintr", "error", "timeout", "ready"} : SelectOutcome(r)
  /\ UNCHANGED << mainVars, flagVars, vrc, i, reqCount, buffers, slotMap,
                  slotOwner, streaming, bufIndex, win, ren, tex, rgb,
                  audioVars, envVars >>
  /\ UNCHANGED calc

\* slots the driver may hand back from VIDIOC_DQBUF
Dequeuable == IF streaming THEN {s \in Slots : s < reqCount /\ slotOwner[s] = "kernel"} ELSE {}

\* where the streaming loop goes when VIDIOC_DQBUF fails
AfterDqbufFail(again) == IF again THEN "loop" ELSE "drain"

\* VIDIOC_DQBUF failed, with errno EAGAIN (again) or another error
DqbufFailed(again) ==
  /\ vpc' = AfterDqbufFail(again)
  /\ hist' = [hist EXCEPT
        !.ioOps = Io("dequeue"), !.lateCycles = Late(@),
        !.videoCause = IF vpc' = "drain" /\ @ = "none" THEN "io" ELSE @]
  /\ UNCHANGED << slotOwner, bufIndex >>

\* xioctl(VIDIOC_DQBUF)
VideoDqbuf ==
  /\ xretry' = FALSE
  /\ vpc = "dqbuf"
  /\ \/ \E s \in Dequeuable :
          /\ slotOwner' = [slotOwner EXCEPT ![s] = "app"]
          /\ bufIndex' = s
          /\ vpc' = "convert"
          /\ hist' = [hist EXCEPT !.ioOps = Io("dequeue"), !.lateCycles = Late(@),
                                  !.frame = "dequeued"]
     \/ \E again \in BOOLEAN : DqbufFailed(again)
  /\ UNCHANGED << mainVars, flagVars, vrc, i, reqCount, buffers, slotMap,
                  streaming, win, ren, tex, rgb, audioVars, events >>
  /\ UNCHANGED calc

\* yuyv_to_rgb24(buffers[buf.index].start, rgb, w, h)
VideoConvert ==
  /\ vpc = "convert"
  /\ vpc' = "present"
  /\ hist' = [hist EXCEPT !.frame = "converted"]
  /\ UNCHANGED << mainVars, flagVars, vrc, i, reqCount, buffers, slotMap,
                  slotOwner, streaming, bufIndex, win, ren, tex, rgb,
                  audioVars, envVars >>
  /\ UNCHANGED calc

\* SDL_UpdateTexture, SDL_RenderClear, SDL_RenderTexture, SDL_RenderPresent
VideoPresent ==
  /\ vpc = "present"
  /\ vpc' = "requeue"
  /\ hist' = [Rendered EXCEPT !.frame = "presented"]
  /\ UNCHANGED << mainVars, flagVars, vrc, i, reqCount, buffers, slotMap,
                  slotOwner, streaming, bufIndex, win, ren, tex, rgb,
                  audioVars, envVars >>
  /\ UNCHANGED calc

\* changed: a failed requeue does not end the loop
AfterRequeueContinue(ok) == "loop"

\* where the streaming loop goes after the VIDIOC_QBUF that requeues
AfterRequeue(ok) == IF ok THEN "loop" ELSE "drain"

\* xioctl(VIDIOC_QBUF, args->buf) at the end of the loop body
VideoRequeue ==
  /\ xretry' = FALSE
  /\ vpc = "requeue"
  /\ \E ok \in BOOLEAN :
       /\ slotOwner' = IF ok THEN [slotOwner EXCEPT ![bufIndex] = "kernel"]
                       ELSE slotOwner
       /\ vpc' = AfterRequeue(ok)
       /\ hist' = [hist EXCEPT
             !.ioOps = Io("requeue"),
             !.frame = IF ok THEN "none" ELSE @,
             !.videoCause = IF ~ok /\ @ = "none" THEN "io" ELSE @]
  /\ UNCHANGED << mainVars, flagVars, vrc, i, reqCount, buffers, slotMap,
                  streaming, bufIndex, win, ren, tex, rgb, audioVars, events >>
  /\ UNCHANGED calc

\* changed: proc_video returns without the store to *args->running
VideoDrainNoStore ==
  /\ vpc = "drain"
  /\ vrc' = 0
  /\ vpc' = "returned"
  /\ UNCHANGED << mainVars, flagVars, i, reqCount, buffers, slotMap, slotOwner,
                  streaming, bufIndex, win, ren, tex, rgb, audioVars, envVars,
                  hist >>
  /\ UNCHANGED calc

\* *args->running = 0; return 0;
VideoDrain ==
  /\ vpc = "drain"
  /\ running' = FALSE
  /\ vrc' = 0
  /\ vpc' = "returned"
  /\ UNCHANGED << mainVars, g_stop, i, reqCount, buffers, slotMap, slotOwner,
                  streaming, bufIndex, win, ren, tex, rgb, audioVars, envVars,
                  hist >>
  /\ UNCHANGED calc

Video ==
  \/ VideoSetFormat \/ VideoReqbufs \/ VideoCalloc \/ VideoQueryMap
  \/ VideoQbufInit \/ VideoStreamOn \/ VideoCreateWindow \/ VideoCreateRenderer
  \/ VideoCreateTexture \/ VideoMallocRgb \/ VideoLoopCheck \/ VideoPollEvents
  \/ VideoSelect \/ VideoDqbuf \/ VideoConvert \/ VideoPresent \/ VideoRequeue
  \/ VideoDrain

\* ---- proc_audio ---------------------------------------------------------

\* goto cleanup out of the startup phase of proc_audio (rc stays 1)
AudioFail(step) ==
  /\ apc' = "cleanup"
  /\ hist' = [hist EXCEPT !.failed = @ \cup {step}, !.audioCause = "startup"]

\* rec_dev = SDL_OpenAudioDevice(rec_id, &want)
AudioOpenRec ==
  /\ apc = "open_rec"
  /\ \/ /\ aud' = [aud EXCEPT !["rec_dev"] = "open"]
        /\ apc' = "open_out"
        /\ UNCHANGED hist
     \/ /\ AudioFail("open_rec")
        /\ UNCHANGED aud
  /\ UNCHANGED << mainVars, flagVars, videoVars, arc, rc, envVars >>
  /\ UNCHANGED calc

\* out_dev = SDL_OpenAudioDevice(out_id, &want)
AudioOpenOut ==
  /\ apc = "open_out"
  /\ \/ /\ aud' = [aud EXCEPT !["out_dev"] = "open"]
        /\ apc' = "bind_rec"
        /\ UNCHANGED hist
     \/ /\ AudioFail("open_out")
        /\ UNCHANGED aud
  /\ UNCHANGED << mainVars, flagVars, videoVars, arc, rc, envVars >>
  /\ UNCHANGED calc

\* SDL_CreateAudioStream and SDL_BindAudioStream of one stream
AudioBind(pc, stream, next) ==
  /\ apc = pc
  /\ \/ /\ aud' = [aud EXCEPT ![stream] = "open"]
        /\ apc' = next
        /\ UNCHANGED hist
     \/ /\ AudioFail(pc)
        /\ \E created \in BOOLEAN :
             aud' = IF created THEN [aud EXCEPT ![stream] = "open"] ELSE aud
  /\ UNCHANGED << mainVars, flagVars, videoVars, arc, rc, envVars >>
  /\ UNCHANGED calc

AudioBindRec == AudioBind("bind_rec", "rec_stream", "bind_out")

AudioBindOut == AudioBind("bind_out", "out_stream", "aloop")

\* while (*args->running && !g_stop); rc = 0 follows the loop
AudioLoopCheck ==
  /\ apc = "aloop"
  /\ IF LoopCond
       THEN /\ apc' = "xfer"
            /\ UNCHANGED << rc, hist >>
       ELSE /\ apc' = "cleanup"
            /\ rc' = 0
            /\ hist' = [hist EXCEPT !.audioCause = "stop"]
  /\ UNCHANGED << mainVars, flagVars, videoVars, arc, aud, envVars >>
  /\ UNCHANGED calc

\* the store a failing transfer makes to *args->running before break: none
RunningAfterAudioError == running

\* where the audio loop goes after one pass of its body:
\* "empty" (avail <= 0), "get_failed", "got_zero", "put_failed", "moved"
AfterTransfer(r) == IF r \in {"get_failed", "put_failed"} THEN "cleanup" ELSE "aloop"

\* what proc_audio does with the result r of one pass of its loop body
TransferOutcome(r) ==
  /\ apc' = AfterTransfer(r)
  /\ IF r \in {"get_failed", "put_failed"}
       THEN /\ rc' = 0
            /\ running' = RunningAfterAudioError
            /\ hist' = [hist EXCEPT !.audioCause = "io", !.lateAudio = Late(@)]
       ELSE /\ UNCHANGED << rc, running >>
            /\ hist' = [hist EXCEPT !.lateAudio = Late(@)]

\* one pass of the audio loop body: SDL_GetAudioStreamAvailable, then
\* SDL_GetAudioStreamData and SDL_PutAudioStreamData; rc = 0 follows a break
AudioTransfer ==
  /\ apc = "xfer"
  /\ \E r \in {"empty", "get_failed", "got_zero", "put_failed", "moved"} :
       TransferOutcome(r)
  /\ UNCHANGED << mainVars, g_stop, videoVars, arc, aud, envVars >>
  /\ UNCHANGED calc

\* cleanup: destroy the streams and close the devices that exist; return rc
AudioCleanup ==
  /\ apc = "cleanup"
  /\ aud' = [o \in AudioObjects |-> IF aud[o] = "open" THEN "closed" ELSE aud[o]]
  /\ arc' = rc
  /\ apc' = "returned"
  /\ UNCHANGED << mainVars, flagVars, videoVars, rc, envVars, hist >>
  /\ UNCHANGED calc

Audio ==
  \/ AudioOpenRec \/ AudioOpenOut \/ AudioBindRec \/ AudioBindOut
  \/ AudioLoopCheck \/ AudioTransfer \/ AudioCleanup

Env == SignalHandler \/ UiEvent \/ XioctlEintr

Next == Main \/ Video \/ Audio \/ Env

Spec == Init /\ [][Next]_vars

\* the three threads are scheduled: each one that can take a step eventually does
FairSpec == Spec /\ WF_vars(Main) /\ WF_vars(Video) /\ WF_vars(Audio)

\* ---- the audio loop's data path, run alone ------------------------------

\* everything but the function call in progress
progVars == << mainVars, flagVars, videoVars, audioVars, envVars, hist >>

\* sizeof(buf)
BufSize == 4096

\* how often the recording device delivers data
MaxArrivals == 2

\* the sizes of one delivery: below, at and above the size of buf
ArrivalSizes == {1, BufSize - 1, BufSize, BufSize + 1}

\* passes of the loop that are followed
MaxPasses == 3

\* A byte of the recording is named by its position in it. A byte sequence is
\* kept as its runs: << <<a, b>>, ... >> stands for a, a+1, ..., b followed by the
\* bytes of the next run; neighbouring runs that continue each other are joined,
\* so that equal byte sequences have equal run lists.
AddRun(rs, r) ==
  IF r[1] > r[2] THEN rs
  ELSE IF rs # << >> /\ rs[Len(rs)][2] + 1 = r[1]
    THEN [rs EXCEPT ![Len(rs)] = << @[1], r[2] >>]
    ELSE Append(rs, r)

RECURSIVE Cat(_, _)
Cat(rs, ts) == IF ts = << >> THEN rs ELSE Cat(AddRun(rs, Head(ts)), Tail(ts))

RECURSIVE Size(_)
Size(rs) == IF rs = << >> THEN 0 ELSE (Head(rs)[2] - Head(rs)[1] + 1) + Size(Tail(rs))

\* the first n bytes of rs
RECURSIVE Take(_, _)
Take(rs, n) ==
  IF n <= 0 \/ rs = << >> THEN << >>
  ELSE LET r == Head(rs)
           k == r[2] - r[1] + 1
       IN IF n < k THEN << << r[1], r[1] + n - 1 >> >>
                   ELSE Cat(<< r >>, Take(Tail(rs), n - k))

\* rs without its first n bytes
RECURSIVE Drop(_, _)
Drop(rs, n) ==
  IF n <= 0 \/ rs = << >> THEN rs
  ELSE LET r == Head(rs)
           k == r[2] - r[1] + 1
       IN IF n < k THEN << << r[1] + n, r[2] >> >> \o Tail(rs)
                   ELSE Drop(Tail(rs), n - k)

IsPrefix(p, q) == Take(q, Size(p)) = p

InitAudio ==
  /\ Idle
  /\ calc = [fn |-> "audio", pc |-> "loop", queue |-> << >>, arrivals |-> 0,
             captured |-> 0, passes |-> 0, avail |-> 0, got |-> 0, buf |-> << >>,
             taken |-> << >>, put |-> << >>]

\* the recording device appends n new bytes to the recording stream's queue
DeviceCapture(n) ==
  /\ calc.fn = "audio" /\ calc.pc = "loop"
  /\ calc.arrivals < MaxArrivals
  /\ calc' = [calc EXCEPT !.queue = AddRun(@, << calc.captured + 1, calc.captured + n >>),
                          !.captured = @ + n, !.arrivals = @ + 1]
  /\ UNCHANGED progVars

\* changed: the request is not limited to the size of buf
ClampNone(avail) == avail

\* if (avail > (int)sizeof(buf)) avail = (int)sizeof(buf);
Clamp(avail) == IF avail > BufSize THEN BufSize ELSE avail

\* what SDL_GetAudioStreamData may return for a request of len bytes
GotOutcomes(len) == {-1, 0, 1, len - 1, len} \cap (-1..len)

\* one pass of the loop with data waiting: buf receives the first got bytes of
\* the queue, and got bytes of buf are put
AudioMove(avail, got, putOk) ==
  LET len  == Clamp(avail)
      data == Take(calc.queue, got)
      sent == Take(data, got)
  IN IF got < 0
       THEN calc' = [calc EXCEPT !.pc = "done", !.avail = len, !.got = got,
                                 !.passes = @ + 1]
       ELSE IF got = 0
         THEN calc' = [calc EXCEPT !.avail = len, !.got = got, !.passes = @ + 1]
         ELSE calc' = [calc EXCEPT !.avail = len, !.got = got, !.buf = data,
                                   !.passes = @ + 1,
                                   !.queue = Drop(@, got),
                                   !.taken = Cat(@, data),
                                   !.put = IF putOk THEN Cat(@, sent) ELSE @,
                                   !.pc = IF putOk THEN "loop" ELSE "done"]

\* one pass of the loop of proc_audio
AudioPass ==
  /\ calc.fn = "audio" /\ calc.pc = "loop"
  /\ calc.passes < MaxPasses
  /\ \E avail \in {-1, Size(calc.queue)} :
       IF avail <= 0
         THEN calc' = [calc EXCEPT !.avail = avail, !.passes = @ + 1]
         ELSE \E got \in GotOutcomes(Clamp(avail)), putOk \in BOOLEAN :
                AudioMove(avail, got, putOk)
  /\ UNCHANGED progVars

\* running or g_stop ends the loop
AudioLoopEnd ==
  /\ calc.fn = "audio" /\ calc.pc = "loop"
  /\ calc' = [calc EXCEPT !.pc = "done"]
  /\ UNCHANGED progVars

NextAudio == (\E n \in ArrivalSizes : DeviceCapture(n)) \/ AudioPass \/ AudioLoopEnd

SpecAudio == InitAudio /\ [][NextAudio]_vars

\* ---- one frame through yuyv_to_rgb24, run alone -------------------------

\* the widest and the highest frame the device settles on
MaxW == 4
MaxH == 2

\* sample values a frame is filled with: the ends of the byte range, the ends
\* of the nominal video range and the middle
Samples == {0, 16, 128, 235, 255}

\* what VIDIOC_S_FMT may leave in fmt: the encoding asked for or another one,
\* the size adjusted; packed 4:2:2 has an even width
PixFormats == {"YUYV", "GREY", "RGB3"}

DeviceFormats ==
  {f \in [pixelformat : PixFormats, width : 1..MaxW, height : 1..MaxH] :
     f.pixelformat = "YUYV" => f.width % 2 = 0}

\* the length VIDIOC_QUERYBUF reports for a slot holding one frame of f
SlotLength(f) ==
  CASE f.pixelformat = "YUYV" -> f.width * f.height * 2
    [] f.pixelformat = "GREY" -> f.width * f.height
    [] f.pixelformat = "RGB3" -> f.width * f.height * 3

InitConv ==
  /\ Idle
  /\ \E f \in DeviceFormats, y \in Samples, u \in Samples, v \in Samples :
       calc = [fn |-> "conv", pc |-> "malloc", fmt |-> f, length |-> SlotLength(f),
               y |-> y, u |-> u, v |-> v,
               rgb_size |-> 0, rgb |-> << >>, writes |-> << >>,
               i |-> 0, j |-> 0, overread |-> {}, spill |-> {}]

\* *args->rgb_size = width * height * 3; *args->rgb = malloc(*args->rgb_size)
ConvMalloc ==
  /\ calc.fn = "conv" /\ calc.pc = "malloc"
  /\ \E ok \in BOOLEAN :
       LET n == calc.fmt.width * calc.fmt.height * 3
       IN calc' = IF ok
            THEN [calc EXCEPT !.pc = "loop", !.rgb_size = n,
                              !.rgb = [k \in 0..(n - 1) |-> -1],
                              !.writes = [k \in 0..(n - 1) |-> 0]]
            ELSE [calc EXCEPT !.pc = "failed", !.rgb_size = n]
  /\ UNCHANGED progVars

clamp_u8(x) == IF x < 0 THEN 0 ELSE IF x > 255 THEN 255 ELSE x

\* x >> 8 of a signed int
Shr8(x) == x \div 256

\* changed: luma is taken as full range
LumaFull(y) == y

\* c = y - 16
Luma(y) == y - 16

Red(c, u, v)   == clamp_u8(Shr8(298 * c + 409 * v + 128))
Green(c, u, v) == clamp_u8(Shr8(298 * c - 100 * u - 208 * v + 128))
Blue(c, u, v)  == clamp_u8(Shr8(298 * c + 516 * u + 128))

\* the byte at offset k of the slot: a frame filled with y, u, v in the packed
\* order Y0 U Y1 V; beyond the mapping, whatever g the read finds there
SlotByte(k, g) ==
  IF k >= calc.length THEN g
  ELSE IF k % 2 = 0 THEN calc.y ELSE IF k % 4 = 1 THEN calc.u ELSE calc.v

\* one pass of the loop of yuyv_to_rgb24: two pixels from four bytes
ConvPair ==
  /\ calc.fn = "conv" /\ calc.pc = "loop"
  /\ calc.i < calc.fmt.width * calc.fmt.height
  /\ LET pi  == calc.i
         j   == calc.j
         rd  == j..(j + 3)
         wr  == (pi * 3)..(pi * 3 + 5)
         bad == {k \in rd : k >= calc.length}
         out == {k \in wr : k >= calc.rgb_size}
     IN \E g \in Samples, fault \in BOOLEAN :
          /\ fault => (bad # {} \/ out # {})
          /\ LET u  == SlotByte(j + 1, g) - 128
                 v  == SlotByte(j + 3, g) - 128
                 c0 == Luma(SlotByte(j, g))
                 c1 == Luma(SlotByte(j + 2, g))
                 px == << Red(c0, u, v), Green(c0, u, v), Blue(c0, u, v),
                          Red(c1, u, v), Green(c1, u, v), Blue(c1, u, v) >>
             IN calc' = IF fault
                  THEN [calc EXCEPT !.pc = "crashed", !.overread = @ \cup bad,
                                    !.spill = @ \cup out]
                  ELSE [calc EXCEPT
                          !.rgb = [k \in DOMAIN @ |->
                                     IF k \in wr THEN px[k - pi * 3 + 1] ELSE @[k]],
                          !.writes = [k \in DOMAIN @ |->
                                        IF k \in wr THEN @[k] + 1 ELSE @[k]],
                          !.overread = @ \cup bad, !.spill = @ \cup out,
                          !.i = pi + 2, !.j = j + 4]
  /\ UNCHANGED progVars

\* i < npix no longer holds
ConvReturn ==
  /\ calc.fn = "conv" /\ calc.pc = "loop"
  /\ calc.i >= calc.fmt.width * calc.fmt.height
  /\ calc' = [calc EXCEPT !.pc = "done"]
  /\ UNCHANGED progVars

NextConv == ConvMalloc \/ ConvPair \/ ConvReturn

SpecConv == InitConv /\ [][NextConv]_vars

\* ---- integer_fit_rect, run alone ----------------------------------------

\* the largest source and destination sides tried exhaustively
MaxSrc == 3
MaxDst == 7

\* << src_w, src_h, dst_w, dst_h >>: every small case, and the capture size
\* in a window of twice its size and in a square window
FitInputs ==
  ((1..MaxSrc) \X (1..MaxSrc) \X (0..MaxDst) \X (0..MaxDst))
    \cup {<< 640, 480, 1280, 960 >>, << 640, 480, 1000, 1000 >>}

\* the spacing of float values around n: 1 up to 2^24, doubling from there
RECURSIVE Ulp(_, _)
Ulp(n, p) == IF n <= 16777216 * p THEN p ELSE Ulp(n, 2 * p)

\* the float nearest to a non-negative int, ties to the even one
NearestFloat(n) ==
  LET p  == Ulp(n, 1)
      lo == (n \div p) * p
  IN IF n - lo < p - (n - lo) THEN lo
     ELSE IF n - lo > p - (n - lo) THEN lo + p
     ELSE IF (lo \div p) % 2 = 0 THEN lo ELSE lo + p

\* (float)n
ToFloat(n) == IF n < 0 THEN 0 - NearestFloat(0 - n) ELSE NearestFloat(n)

\* changed: the scale is not raised to 1
ScaleUnclamped(sx, sy) == IF sx < sy THEN sx ELSE sy

\* s = (sx < sy) ? sx : sy; if (s < 1) s = 1;
ScaleOf(sx, sy) ==
  LET m == IF sx < sy THEN sx ELSE sy
  IN IF m < 1 THEN 1 ELSE m

\* the rectangle returned; x and y are multiples of one half and are kept
\* doubled (x2 = 2 * r.x), which the product with 0.5f forms exactly
integer_fit_rect(src_w, src_h, dst_w, dst_h) ==
  LET sx == dst_w \div src_w
      sy == dst_h \div src_h
      sc == ScaleOf(sx, sy)
      rw == ToFloat(src_w * sc)
      rh == ToFloat(src_h * sc)
  IN [w |-> rw, h |-> rh, x2 |-> ToFloat(dst_w - rw), y2 |-> ToFloat(dst_h - rh)]

InitFit ==
  /\ Idle
  /\ \E a \in FitInputs :
       calc = [fn |-> "fit", pc |-> "call", src_w |-> a[1], src_h |-> a[2],
               dst_w |-> a[3], dst_h |-> a[4], r |-> [w |-> 0, h |-> 0, x2 |-> 0, y2 |-> 0]]

\* SDL_FRect dst = integer_fit_rect(width, height, outw, outh)
FitCall ==
  /\ calc.fn = "fit" /\ calc.pc = "call"
  /\ calc' = [calc EXCEPT !.pc = "returned",
                          !.r = integer_fit_rect(calc.src_w, calc.src_h, calc.dst_w, calc.dst_h)]
  /\ UNCHANGED progVars

NextFit == FitCall

SpecFit == InitFit /\ [][NextFit]_vars

\* ---- pick_recording_device, run alone -----------------------------------

\* the longest selector and the longest device list tried
MaxSel == 2
MaxDevices == 2

\* characters of selectors and device names: digits, a sign, a letter in both cases
Digits == {"0", "1"}
Alphabet == Digits \cup {"-", "a", "A"}

\* a char pointer: null, or the characters before the terminating zero
NullStr == [null |-> TRUE, str |-> << >>]
Str(cs) == [null |-> FALSE, str |-> cs]

StringsUpTo(n) == UNION {[1..k -> Alphabet] : k \in 0..n}

Selectors == {NullStr} \cup {Str(cs) : cs \in StringsUpTo(MaxSel)}

\* what SDL_GetAudioDeviceName may return for a device
DeviceNames == {NullStr, Str(<< "a" >>), Str(<< "A", "a" >>), Str(<< "a", "1" >>)}

\* what SDL_GetAudioRecordingDevices may return: null, or the devices in
\* enumeration order, here each given by its name
DeviceLists ==
  {[null |-> TRUE, names |-> << >>]}
    \cup {[null |-> FALSE, names |-> ns] :
            ns \in UNION {[1..k -> DeviceNames] : k \in 0..MaxDevices}}

DigitVal(c) == IF c = "0" THEN 0 ELSE 1

\* the digits of cs from position k on: << value, first position not used >>
RECURSIVE ScanDigits(_, _, _)
ScanDigits(cs, k, acc) ==
  IF k <= Len(cs) /\ cs[k] \in Digits
    THEN ScanDigits(cs, k + 1, acc * 10 + DigitVal(cs[k]))
    ELSE << acc, k >>

\* strtol(selector, &end, 10): an optional sign, then digits; without a digit
\* nothing is converted and end is the start of the string
strtol(cs) ==
  LET neg   == Len(cs) >= 1 /\ cs[1] = "-"
      start == IF neg THEN 2 ELSE 1
      d     == ScanDigits(cs, start, 0)
  IN IF d[2] = start THEN [val |-> 0, end |-> 1]
     ELSE [val |-> IF neg THEN 0 - d[1] ELSE d[1], end |-> d[2]]

\* strstr(name, selector) != NULL
strstr(hay, needle) ==
  \E k \in 1..(Len(hay) + 1) :
    /\ k + Len(needle) - 1 <= Len(hay)
    /\ SubSeq(hay, k, k + Len(needle) - 1) = needle

\* the loop over the devices with its break: the position of the first device
\* from k on whose name contains the selector, 0 if there is none
RECURSIVE FirstMatch(_, _, _)
FirstMatch(names, cs, k) ==
  IF k > Len(names) THEN 0
  ELSE IF ~names[k].null /\ strstr(names[k].str, cs) THEN k
  ELSE FirstMatch(names, cs, k + 1)

\* chosen is "default" or the index of the chosen device in the enumeration;
\* diag tells whether a line went to stderr
pick_recording_device(selector, devices) ==
  LET count == IF devices.null THEN 0 ELSE Len(devices.names)
      none  == [chosen |-> "default", diag |-> FALSE]
  IN IF selector.null \/ selector.str = << >> THEN none
     ELSE LET t == strtol(selector.str)
          IN IF t.end = Len(selector.str) + 1
               THEN IF ~devices.null /\ t.val >= 0 /\ t.val < count
                      THEN [chosen |-> t.val, diag |-> FALSE]
                      ELSE [chosen |-> "default", diag |-> TRUE]
               ELSE IF ~devices.null
                 THEN LET m == FirstMatch(devices.names, selector.str, 1)
                      IN IF m # 0 THEN [chosen |-> m - 1, diag |-> FALSE]
                                  ELSE [chosen |-> "default", diag |-> TRUE]
                 ELSE none

InitPick ==
  /\ Idle
  /\ \E sel \in Selectors, devs \in DeviceLists :
       calc = [fn |-> "pick", pc |-> "call", selector |-> sel, devices |-> devs,
               r |-> [chosen |-> "default", diag |-> FALSE]]

\* SDL_AudioDeviceID rec_dev_id = pick_recording_device(args->rec_selector)
PickCall ==
  /\ calc.fn = "pick" /\ calc.pc = "call"
  /\ calc' = [calc EXCEPT !.pc = "returned",
                          !.r = pick_recording_device(calc.selector, calc.devices)]
  /\ UNCHANGED progVars

NextPick == PickCall

SpecPick == InitPick /\ [][NextPick]_vars

\* ---- claims -------------------------------------------------------------

VideoRuns == vpc \notin {"notstarted", "returned"}
AudioRuns == apc \notin {"notstarted", "returned"}

\* C1: once RunState is false or the stop flag is set, a started capture worker
\* and a started audio worker each return, after completing at most one more
\* readiness wait, at most one more dequeue cycle and at most one more audio pass.
C1_ShutdownConvergence ==
  /\ [](hist.lateWaits <= 1 /\ hist.lateCycles <= 1 /\ hist.lateAudio <= 1)
  /\ (StopRequested /\ VideoRuns) ~> (vpc = "returned")
  /\ (StopRequested /\ AudioRuns) ~> (apc = "returned")

\* both workers were caught inside an iteration by the request and returned
C1_Witness ==
  /\ vpc = "returned" /\ apc = "returned"
  /\ hist.lateWaits = 1 /\ hist.lateCycles = 1 /\ hist.lateAudio = 1
  /\ g_stop

\* slots the application owns: mapped into its memory and not queued
Held == {s \in Slots : s < reqCount /\ slotMap[s] = "mapped" /\ slotOwner[s] = "app"}

\* C2: a failed read or write in the audio loop makes the audio worker store
\* false to RunState before it returns.
C2_AudioErrorStopsAll ==
  (hist.audioCause = "io" /\ apc = "returned") => ~running

\* C3 as stated: in every reachable state at most one slot is application-owned.
C3_AtMostOneHeldAlways ==
  Cardinality(Held) <= 1

\* C3 amended: while the device streams at most one slot is application-owned;
\* the slot being converted, presented or requeued is that slot; no wait or
\* dequeue is started while a slot is held; a slot goes back to the driver only
\* after its frame was converted and presented.
C3_SlotOwnership ==
  /\ [](/\ streaming => Cardinality(Held) <= 1
        /\ vpc \in {"convert", "present", "requeue"} => streaming /\ Held = {bufIndex}
        /\ vpc \in {"poll", "select", "dqbuf"} => streaming /\ Held = {})
  /\ [][(streaming /\ \E s \in Slots : slotOwner[s] = "app" /\ slotOwner'[s] = "kernel")
          => hist.frame = "presented"]_vars

\* a second frame is being read after the first one was requeued
C3_Witness ==
  /\ vpc = "convert"
  /\ Held = {bufIndex}
  /\ << "requeue", TRUE >> \in hist.ioOps

\* C4 as stated: every enqueue and every dequeue is issued while the device streams.
C4_AllQueueOpsWhileStreaming ==
  \A op \in hist.ioOps : op[2]

\* C4 amended: every dequeue and every requeue of the streaming loop is issued
\* while the device streams; every initial enqueue is issued before stream-on.
C4_LoopOpsWhileStreaming ==
  \A op \in hist.ioOps :
     IF op[1] = "enqueue" THEN ~op[2] ELSE op[2]

\* all three kinds of queue call have been issued
C4_Witness ==
  /\ << "enqueue", FALSE >> \in hist.ioOps
  /\ << "dequeue", TRUE >> \in hist.ioOps
  /\ << "requeue", TRUE >> \in hist.ioOps
  /\ ~streaming /\ "streamoff" \in { hist.cleanupLog[k] : k \in 1 .. Len(hist.cleanupLog) }

\* C5: window, renderer and texture are created, used and destroyed by one thread.
C5_RenderThreadAffinity ==
  Cardinality(hist.renderBy) <= 1

\* C6: main releases nothing while the capture worker can still run, and on the
\* path where both workers were started nothing before both have returned.
C6_ReleaseAfterJoin ==
  hist.cleanupLog # << >> =>
    /\ vpc \in {"notstarted", "returned"}
    /\ vpc = "notstarted" => mpc = "exited"
    /\ apc \in {"notstarted", "returned"}
    /\ apc = "notstarted" => mpc = "exited"

\* the full cleanup ran after both workers returned
C6_Witness ==
  /\ mpc = "exited" /\ exitCode = 0
  /\ Len(hist.cleanupLog) >= 7
  /\ vpc = "returned" /\ apc = "returned"

\* C7: every release step is applied to a resource that exists and is not yet released.
C7_ReleaseOnlyLive ==
  hist.misapplied = {}

\* C8: when the process exits after the capture worker was started, no video
\* resource that was created is still unreleased.
C8_AllReleasedAtExit ==
  (mpc = "exited" /\ vpc # "notstarted") =>
    /\ \A s \in Slots : slotMap[s] # "mapped"
    /\ buffers # "alloc"
    /\ rgb # "alloc"
    /\ tex # "live" /\ ren # "live" /\ win # "live"
    /\ fdv # "open"

\* the startup steps C9 lists
ListedStartup ==
  {"open", "s_fmt", "reqbufs", "calloc", "querybuf", "mmap", "window", "renderer",
   "texture", "open_rec", "open_out", "bind_rec", "bind_out"}

\* C9: the exit code is 1 when a listed startup step failed, and 0 when none
\* failed and both workers were started.
C9_ExitCode ==
  mpc = "exited" =>
    IF hist.failed \cap ListedStartup # {}
      THEN exitCode = 1
      ELSE (hist.failed = {} /\ vpc # "notstarted" /\ apc # "notstarted") => exitCode = 0

\* C10: after a failed audio open or bind the process exits by itself.
C10_AudioStartupFatal ==
  (hist.audioCause = "startup") ~> (mpc = "exited")

\* C11: RunState starts true and the stop flag clear; a step never turns RunState
\* back to true and never clears the stop flag; RunState is stored only by main,
\* by the poll loop and at the end of proc_video; a step that sets the stop flag
\* changes nothing else.
C11_FlagsMonotone ==
  /\ (running = TRUE /\ g_stop = FALSE)
  /\ [][~running => ~running']_vars
  /\ [][g_stop => g_stop']_vars
  /\ [][running' # running =>
          /\ mpc \in {"create_video", "create_audio", "join_video"} \/ vpc \in {"poll", "drain"}
          /\ UNCHANGED << audioVars, g_stop >>]_vars
  /\ [][g_stop' # g_stop =>
          UNCHANGED << mainVars, running, videoVars, audioVars, envVars, hist, calc >>]_vars

\* both flags were set during a run that ended cleanly
C11_Witness ==
  /\ ~running /\ g_stop
  /\ hist.videoCause = "stop"
  /\ mpc = "exited" /\ exitCode = 0

\* C12: a pass of the audio loop takes at most 4096 bytes from the recording
\* stream; what has been put into the playback stream is a prefix of what has
\* been taken, in the same order, and equals it while the loop goes on; taken
\* and waiting bytes together are the recording, nothing lost or repeated.
C12_AudioPrefix ==
  calc.fn = "audio" =>
    /\ calc.avail <= BufSize /\ calc.got <= BufSize /\ Size(calc.buf) <= BufSize
    /\ IsPrefix(calc.put, calc.taken)
    /\ calc.pc = "loop" => calc.put = calc.taken
    /\ Cat(calc.taken, calc.queue) = AddRun(<< >>, << 1, calc.captured >>)

\* a delivery larger than buf was moved in more than one pass
C12_Witness ==
  /\ calc.fn = "audio"
  /\ Size(calc.put) > BufSize
  /\ calc.got \in 1..(BufSize - 1)
  /\ calc.put = calc.taken

ConvEnded == calc.fn = "conv" /\ calc.pc \in {"done", "crashed"}

\* C13: the frame buffer has width*height*3 bytes; a conversion call writes each
\* of them exactly once and writes nothing outside.
C13_EveryByteOnce ==
  /\ (calc.fn = "conv" /\ calc.pc \in {"loop", "done", "crashed"}) =>
       calc.rgb_size = calc.fmt.width * calc.fmt.height * 3
  /\ ConvEnded => calc.spill = {}
  /\ (calc.fn = "conv" /\ calc.pc = "done") =>
       \A k \in 0..(calc.rgb_size - 1) : calc.writes[k] = 1

\* a frame of luma 128 and chroma 128 throughout, read inside the slot
Neutral ==
  /\ calc.fn = "conv" /\ calc.pc \in {"loop", "done"}
  /\ calc.y = 128 /\ calc.u = 128 /\ calc.v = 128
  /\ calc.overread = {}

\* C14 as written: a frame of luma 128 and chroma 128 throughout converts to
\* R, G and B each in 127..129.
C14_NeutralWithinOne ==
  Neutral => \A k \in DOMAIN calc.rgb : calc.writes[k] > 0 => calc.rgb[k] \in 127..129

\* C14: a frame of luma 128 and chroma 128 throughout converts to R, G and B
\* each equal to 130, which is (298 * (128 - 16) + 128) >> 8.
C14_NeutralIs130 ==
  Neutral => \A k \in DOMAIN calc.rgb : calc.writes[k] > 0 => calc.rgb[k] = 130

\* a neutral packed 4:2:2 frame of more than one pixel pair was converted
C14_Witness ==
  /\ Neutral /\ calc.pc = "done"
  /\ calc.fmt.pixelformat = "YUYV" /\ calc.fmt.width * calc.fmt.height >= 4
  /\ \A k \in DOMAIN calc.rgb : calc.writes[k] = 1 /\ calc.rgb[k] = 130

Min(a, b) == IF a <= b THEN a ELSE b
Max(a, b) == IF a >= b THEN a ELSE b

FitArgs == << calc.src_w, calc.src_h, calc.dst_w, calc.dst_h >>

\* C15: the rectangle has size srcW*s by srcH*s with
\* s = max(1, min(dstW div srcW, dstH div srcH)) and offsets (dstW - srcW*s)/2,
\* (dstH - srcH*s)/2; 640x480 in 1280x960 gives 1280x960 at (0,0) and in
\* 1000x1000 gives 640x480 at (180,260).
C15_FitRect ==
  (calc.fn = "fit" /\ calc.pc = "returned") =>
    LET s == Max(1, Min(calc.dst_w \div calc.src_w, calc.dst_h \div calc.src_h))
    IN /\ calc.r.w = calc.src_w * s
       /\ calc.r.h = calc.src_h * s
       /\ calc.r.x2 = calc.dst_w - calc.src_w * s
       /\ calc.r.y2 = calc.dst_h - calc.src_h * s
       /\ FitArgs = << 640, 480, 1280, 960 >> =>
            s = 2 /\ calc.r = [w |-> 1280, h |-> 960, x2 |-> 0, y2 |-> 0]
       /\ FitArgs = << 640, 480, 1000, 1000 >> =>
            s = 1 /\ calc.r = [w |-> 640, h |-> 480, x2 |-> 2 * 180, y2 |-> 2 * 260]

\* the capture size was fitted into the square window
C15_Witness ==
  /\ calc.fn = "fit" /\ calc.pc = "returned"
  /\ FitArgs = << 640, 480, 1000, 1000 >>
  /\ calc.r.x2 = 360 /\ calc.r.y2 = 520

\* the selector is all digits after an optional sign
NumericSelector == strtol(calc.selector.str).end = Len(calc.selector.str) + 1

\* the enumerated devices whose name contains the selector, by index
MatchingDevices ==
  {k \in 0..(Len(calc.devices.names) - 1) :
     /\ ~calc.devices.names[k + 1].null
     /\ strstr(calc.devices.names[k + 1].str, calc.selector.str)}

\* C16: a numeric selector that is a valid index selects that device; an
\* out-of-range numeric selector gives the default with a diagnostic; a
\* non-numeric selector selects the first device whose name contains it; one
\* that no name contains gives the default with a diagnostic.
C16_SelectorResolution ==
  (/\ calc.fn = "pick" /\ calc.pc = "returned"
   /\ ~calc.selector.null /\ calc.selector.str # << >>) =>
    LET idx == strtol(calc.selector.str).val
    IN /\ (NumericSelector /\ idx \in 0..(Len(calc.devices.names) - 1)) =>
            calc.r.chosen = idx
       /\ (NumericSelector /\ idx \notin 0..(Len(calc.devices.names) - 1)) =>
            calc.r = [chosen |-> "default", diag |-> TRUE]
       /\ (~NumericSelector /\ MatchingDevices # {}) =>
            /\ calc.r.chosen \in MatchingDevices
            /\ \A k \in MatchingDevices : calc.r.chosen <= k
       /\ (~NumericSelector /\ MatchingDevices = {}) =>
            calc.r = [chosen |-> "default", diag |-> TRUE]

\* the startup steps of proc_video, and the places of its loop
VideoStartupSteps ==
  {"s_fmt", "reqbufs", "calloc", "querybuf", "mmap", "qbuf", "streamon", "window",
   "renderer", "texture", "rgb"}

VideoLoopPcs == {"loop", "poll", "select", "dqbuf", "convert", "present", "requeue", "drain"}

FailedVideoSteps == hist.failed \cap VideoStartupSteps

\* C17: when a startup step of proc_video fails, proc_video returns 1 from that
\* step and stays returned: no pass of its loop has run or will run, so no
\* wait, dequeue, conversion or presentation occurs.
C17_StartupFailureStops ==
  /\ [](FailedVideoSteps # {} =>
          /\ vpc = "returned" /\ vrc = 1
          /\ hist.frame = "none"
          /\ \A op \in hist.ioOps : op[1] = "enqueue"
          /\ hist.lateWaits = 0 /\ hist.lateCycles = 0)
  /\ [][FailedVideoSteps' # FailedVideoSteps =>
          vpc \notin VideoLoopPcs /\ vpc' = "returned"]_vars
  /\ [][vpc = "returned" => vpc' = "returned"]_vars

\* texture creation failed after the device had started streaming, and the
\* program ran to its end
C17_Witness ==
  /\ FailedVideoSteps = {"texture"}
  /\ vpc = "returned" /\ vrc = 1
  /\ win = "destroyed" /\ mpc = "exited"

\* the loop of proc_video has ended and proc_video has returned
VideoLoopEnded == vpc = "returned" /\ hist.videoCause \in {"io", "stop"}

\* the place of op in the cleanup log, 0 if it is not there
RECURSIVE LogPlace(_, _)
LogPlace(op, k) ==
  IF k > Len(hist.cleanupLog) THEN 0
  ELSE IF hist.cleanupLog[k] = op THEN k ELSE LogPlace(op, k + 1)

\* C18: when the loop of proc_video has ended, on the loop condition or on a
\* failed wait, dequeue or requeue, RunState is false once proc_video has
\* returned, and the audio worker then returns as well; buffers are unmapped
\* only after streaming was stopped on the device.
C18_LoopEndStopsAll ==
  /\ [](VideoLoopEnded => ~running)
  /\ []((\E s \in Slots : slotMap[s] = "unmapped") => ~streaming)
  /\ [](LogPlace("munmap", 1) # 0 =>
          LogPlace("streamoff", 1) \in 1..(LogPlace("munmap", 1) - 1))
  /\ [][(\E s \in Slots : slotMap'[s] = "unmapped" /\ slotMap[s] # "unmapped") =>
          (VideoLoopEnded \/ FailedVideoSteps # {}) /\ ~streaming]_vars
  /\ (VideoLoopEnded /\ AudioRuns) ~> (apc = "returned")

\* a failed dequeue ended the loop while the device was streaming; the slots
\* were unmapped after the stream was stopped
C18_Witness ==
  /\ VideoLoopEnded /\ hist.videoCause = "io" /\ ~running
  /\ << "dequeue", TRUE >> \in hist.ioOps
  /\ \E s \in Slots : slotMap[s] = "unmapped"
  /\ ~streaming /\ apc = "returned"

\* C19: a timeout or an interruption of select, a VIDIOC_DQBUF that would
\* block and an empty recording queue each take the worker back to the head of
\* its loop with RunState and its result untouched; an interrupted ioctl leaves
\* every thread where it is, the call still to be made.
C19_BenignOutcomesContinue ==
  /\ [][(vpc = "select" /\ (SelectOutcome("timeout") \/ SelectOutcome("eintr"))) =>
          vpc' = "loop" /\ UNCHANGED << running, g_stop, vrc, mpc, apc >>]_vars
  /\ [][(vpc = "dqbuf" /\ DqbufFailed(TRUE)) =>
          vpc' = "loop" /\ UNCHANGED << running, g_stop, vrc, mpc, apc >>]_vars
  /\ [][(apc = "xfer" /\ TransferOutcome("empty")) =>
          apc' = "aloop" /\ UNCHANGED << running, g_stop, rc, mpc, vpc >>]_vars
  /\ [][(xretry' /\ ~xretry) =>
          /\ vpc \in VideoIoctlPcs \/ mpc = "streamoff"
          /\ UNCHANGED << mainVars, flagVars, videoVars, audioVars >>]_vars
  /\ []((vpc = "loop" /\ ~StopRequested) => hist.videoCause = "none")

\* proc_video is in a later pass of its loop with an interrupted VIDIOC_DQBUF
\* to be made again, and nothing has asked for shutdown
C19_Witness ==
  /\ vpc = "dqbuf" /\ xretry
  /\ << "requeue", TRUE >> \in hist.ioOps
  /\ running /\ ~g_stop /\ hist.videoCause = "none"
  /\ apc = "xfer"

\* C20: whatever encoding, size and slot length the device reports, the
\* conversion reads no byte beyond the mapped length of the slot.
C20_ReadsInsideSlot ==
  calc.fn = "conv" =>
    /\ calc.overread = {}
    /\ calc.pc \in {"loop", "done"} => calc.j <= calc.length

====
